---- MODULE Spec2Model ----
(***************************************************************************)
(* Model of marymorales12/mi_proyecto_flask.                               *)
(*                                                                         *)
(*  - app.py: the Flask shop.  The durable MySQL tables productos and      *)
(*    compras, the session cart, and the request handlers that buy         *)
(*    (comprar_producto, comprar_carrito), fill the cart and delete        *)
(*    products.  In Spec one request runs to completion before the next    *)
(*    starts, so every handler is one action; in SpecCarrera the requests  *)
(*    of two sessions interleave between validation and apply phase.       *)
(*  - inventario_poo_sqlite.py: the console inventory.  The Producto       *)
(*    entity with its validating setters and the Inventario repository     *)
(*    (in-memory dict plus SQLite table).                                  *)
(*                                                                         *)
(* The two programs do not share a database; each has its own variables    *)
(* and its own specification (Spec for app.py, SpecInventario for the      *)
(* console inventory).                                                     *)
(***************************************************************************)
EXTENDS Integers, Sequences, FiniteSets, TLC

VARIABLES
    productos,      \* app.py: committed rows of table productos, id -> row
    compras,        \* app.py: committed rows of table compras, in insert order
    autoId,         \* app.py: AUTO_INCREMENT counter of table productos
    carrito,        \* app.py: session['carrito'], a dict in iteration order
    pet,            \* app.py: the last request: the logged-in user and the
                    \*         statement that raised while it was served
    res,            \* app.py: how the last request ended
    sesiones,       \* app.py: the customers' sessions whose requests are served
                    \*         at the same time: each one's cart and the request
                    \*         it has in flight
    inv,            \* Inventario.productos, the in-memory dict id -> Producto
    tabla,          \* Inventario: rows of the SQLite table productos
    petInv,         \* Inventario: the id the last call was made with
    resInv,         \* Inventario: the last call and how it ended
    fallosBD,       \* Inventario: database errors that have happened so far
    construido      \* Producto: the last constructor call, its arguments and
                    \*           what it gave

vars == <<productos, compras, autoId, carrito, pet, res, sesiones, inv, tabla,
          petInv, resInv, fallosBD, construido>>
appVars == <<productos, compras, autoId, carrito, pet, res, sesiones>>
invVars == <<inv, tabla, petInv, resInv, fallosBD, construido>>

----------------------------------------------------------------------------
(* Bounds *)

MaxStock == 2        \* stock every shop product starts with
MaxCantidad == 2     \* largest quantity a form submits
MaxLinea == 2        \* cap on the quantity accumulated in one cart line
MaxCompras == 2      \* cap on the number of rows of table compras
MaxFallosBD == 1     \* cap on the number of database errors in one run

----------------------------------------------------------------------------
(* Values *)

\* A float: either NaN or a number.
Flt(n) == [nan |-> FALSE, v |-> n]
NaN == [nan |-> TRUE, v |-> 0]

\* Python's  a < b  on floats: every comparison with NaN is False.
FloatLt(a, b) == ~a.nan /\ ~b.nan /\ a.v < b.v
FloatGe(a, b) == ~a.nan /\ ~b.nan /\ a.v >= b.v

\* The catalogue the shop is installed with: two products.
Pids == {1, 2}

\* The customers' sessions that are served at the same time, and the user
\* logged in in each.
Sesiones == {1, 2}
Cliente(s) == [id |-> s + 1, rol |-> "user"]

\* A session with cart c and no request in flight.
SesionLibre(c) ==
    [carrito |-> c, fase |-> "libre", op |-> "", sentencias |-> <<>>, leido |-> <<>>]

\* Users as flask-login loads them: Usuario(id, ..., rol).
Usuarios == { [id |-> 1, rol |-> "admin"], [id |-> 2, rol |-> "user"] }

\* Mutant: the role is compared with a name no user has.
es_adminOtroRol(u) == u.rol = "administrador"

es_admin(u) == u.rol = "admin"

\* Decimal digits of a natural number, most significant first: str(pid).
RECURSIVE Str(_)
Str(n) == IF n < 10 THEN <<n>> ELSE Str(n \div 10) \o <<n % 10>>

\* int(pid_str) on a string of decimal digits.
RECURSIVE IntOf(_)
IntOf(s) == IF Len(s) = 0 THEN 0
            ELSE 10 * IntOf(SubSeq(s, 1, Len(s) - 1)) + s[Len(s)]

\* The value of the form field 'cantidad': absent, not a number, or an integer.
Formularios ==
    { [tipo |-> "ausente", n |-> 0], [tipo |-> "texto", n |-> 0] }
    \cup { [tipo |-> "entero", n |-> k] : k \in 0..MaxCantidad }

\* Mutant: the check is  cantidad < 0, so a quantity of 0 passes.
LeerCantidadCero(f) ==
    LET n == IF f.tipo = "ausente" THEN 1 ELSE f.n
        parsed == f.tipo # "texto"
    IN  [ok |-> parsed /\ ~(n < 0), n |-> n]

\* int(request.form.get('cantidad', 1)) followed by  if cantidad < 1: raise.
\* ok is FALSE when the ValueError branch is taken.
LeerCantidad(f) ==
    LET n == IF f.tipo = "ausente" THEN 1 ELSE f.n
        parsed == f.tipo # "texto"
    IN  [ok |-> parsed /\ ~(n < 1), n |-> n]

----------------------------------------------------------------------------
(* app.py: the durable store and its transactions *)

\* Names and prices of the rows the shop starts with.
Letras == <<"a", "b", "c", "d", "e">>
NombreDe(pid) == <<Letras[pid]>>

\* What the connection sees: the committed tables plus its uncommitted changes.
Tx(p, c) == [productos |-> p, compras |-> c]

\* Mutant: the INSERT records one unit whatever the quantity.
InsertDeUno(u, pid, n) == [tipo |-> "INSERT", usuario |-> u.id, pid |-> pid, cantidad |-> 1]

\* The two statements of the apply phase.
Insert(u, pid, n) == [tipo |-> "INSERT", usuario |-> u.id, pid |-> pid, cantidad |-> n]
\* Mutant: the UPDATE always takes one unit.
UpdateDeUno(pid, n) == [tipo |-> "UPDATE", usuario |-> 0, pid |-> pid, cantidad |-> 1]

Update(pid, n) == [tipo |-> "UPDATE", usuario |-> 0, pid |-> pid, cantidad |-> n]

\* Mutant: the INSERT replaces the rows of compras by the new one.
EjecutarReemplazando(tx, s) ==
    IF s.tipo = "INSERT"
    THEN [tx EXCEPT !.compras = <<[usuario_id |-> s.usuario,
                                  producto_id |-> s.pid,
                                  cantidad |-> s.cantidad]>>]
    ELSE IF s.pid \in DOMAIN tx.productos
         THEN [tx EXCEPT !.productos[s.pid].cantidad = @ - s.cantidad]
         ELSE tx

\* Mutant: the UPDATE decrements only a row that has the units (a compare and
\* decrement: ... WHERE id = pid AND cantidad >= n).
EjecutarSiAlcanza(tx, s) ==
    IF s.tipo = "INSERT"
    THEN [tx EXCEPT !.compras = Append(@, [usuario_id |-> s.usuario,
                                           producto_id |-> s.pid,
                                           cantidad |-> s.cantidad])]
    ELSE IF s.pid \in DOMAIN tx.productos /\ tx.productos[s.pid].cantidad >= s.cantidad
         THEN [tx EXCEPT !.productos[s.pid].cantidad = @ - s.cantidad]
         ELSE tx

\* cursor.execute of one statement on the connection's view.
\*   INSERT INTO compras (usuario_id, producto_id, cantidad) VALUES (...)
\*   UPDATE productos SET cantidad = cantidad - n WHERE id = pid
Ejecutar(tx, s) ==
    IF s.tipo = "INSERT"
    THEN [tx EXCEPT !.compras = Append(@, [usuario_id |-> s.usuario,
                                           producto_id |-> s.pid,
                                           cantidad |-> s.cantidad])]
    ELSE IF s.pid \in DOMAIN tx.productos
         THEN [tx EXCEPT !.productos[s.pid].cantidad = @ - s.cantidad]
         ELSE tx

\* Mutant: a statement that raises is skipped and the run goes on.
RECURSIVE EjecutarTodasTragando(_, _, _, _)
EjecutarTodasTragando(tx, ss, base, fallo) ==
    IF Len(ss) = 0 THEN [tx |-> tx, ok |-> TRUE]
    ELSE IF base + 1 = fallo
    THEN EjecutarTodasTragando(tx, Tail(ss), base + 1, fallo)
    ELSE EjecutarTodasTragando(Ejecutar(tx, Head(ss)), Tail(ss), base + 1, fallo)

\* The statements ss run in order on tx; statement number base + i raises when
\* it is the one the fault names.  ok is FALSE when a statement raised; the
\* statements before it have acted on the connection's view.
RECURSIVE EjecutarTodas(_, _, _, _)
EjecutarTodas(tx, ss, base, fallo) ==
    IF Len(ss) = 0 THEN [tx |-> tx, ok |-> TRUE]
    ELSE IF base + 1 = fallo THEN [tx |-> tx, ok |-> FALSE]
    ELSE EjecutarTodas(Ejecutar(tx, Head(ss)), Tail(ss), base + 1, fallo)

\* Mutant: the comparison is off by one.
InsuficienteDesfasado(disponible, cantidad) == disponible + 1 < cantidad

\* producto['disponible'] < cantidad: the stock does not cover the request.
Insuficiente(disponible, cantidad) == disponible < cantidad

\* conn.commit(): the connection's view becomes the committed state.
Commit(committed, tx) == tx

\* Mutant: the rollback keeps the connection's changes (autocommit).
RollbackSinEfecto(committed, tx) == tx

\* conn.rollback(): the connection's changes are discarded.
Rollback(committed, tx) == committed

\* What a request reports.  disponible and nombre are the values its message
\* carries; lecturas counts the stock SELECTs that returned; conexiones,
\* cerradas, commits and rollbacks count its calls of conexion(),
\* cerrar_conexion(), conn.commit() (returning) and conn.rollback().
Resultado(op, resultado) ==
    [op |-> op, resultado |-> resultado, disponible |-> 0, nombre |-> <<>>,
     lecturas |-> 0, conexiones |-> 0, cerradas |-> 0, commits |-> 0,
     rollbacks |-> 0]

\* Mutant: the except branch does not call conn.rollback(); the connection is
\* closed with its transaction open, which discards it.
AplicarSinRollback(op, ss, base, fallo, lecturas, vaciar) ==
    LET tx0 == Tx(productos, compras)
        run == EjecutarTodas(tx0, ss, base, fallo)
        exito == run.ok /\ fallo # base + Len(ss) + 1
        fin == IF exito THEN Commit(tx0, run.tx) ELSE tx0
    IN  [productos |-> fin.productos,
         compras |-> fin.compras,
         carrito |-> IF exito /\ vaciar THEN <<>> ELSE carrito,
         res |-> [Resultado(op, IF exito THEN "ok" ELSE "error")
                    EXCEPT !.lecturas = lecturas, !.conexiones = 1, !.cerradas = 1,
                           !.commits = IF exito THEN 1 ELSE 0]]

\* Mutant: the cart is emptied in the finally block, after a rollback too.
AplicarVaciando(op, ss, base, fallo, lecturas, vaciar) ==
    LET tx0 == Tx(productos, compras)
        run == EjecutarTodas(tx0, ss, base, fallo)
        exito == run.ok /\ fallo # base + Len(ss) + 1
        fin == IF exito THEN Commit(tx0, run.tx) ELSE Rollback(tx0, run.tx)
    IN  [productos |-> fin.productos,
         compras |-> fin.compras,
         carrito |-> IF vaciar THEN <<>> ELSE carrito,
         res |-> [Resultado(op, IF exito THEN "ok" ELSE "error")
                    EXCEPT !.lecturas = lecturas, !.conexiones = 1, !.cerradas = 1,
                           !.commits = IF exito THEN 1 ELSE 0,
                           !.rollbacks = IF exito THEN 0 ELSE 1]]

\* The try / except / finally block shared by both purchase handlers: run the
\* statements, commit, and on any exception roll back; always close.
\* Statement numbers: the statements of ss are base+1 .. base+Len(ss), the
\* commit is base+Len(ss)+1.
Aplicar(op, ss, base, fallo, lecturas, vaciar) ==
    LET tx0 == Tx(productos, compras)
        run == EjecutarTodas(tx0, ss, base, fallo)
        commitFalla == fallo = base + Len(ss) + 1
        exito == run.ok /\ ~commitFalla
        fin == IF exito THEN Commit(tx0, run.tx) ELSE Rollback(tx0, run.tx)
    IN  [productos |-> fin.productos,
         compras |-> fin.compras,
         carrito |-> IF exito /\ vaciar THEN <<>> ELSE carrito,
         res |-> [Resultado(op, IF exito THEN "ok" ELSE "error")
                    EXCEPT !.lecturas = lecturas, !.conexiones = 1, !.cerradas = 1,
                           !.commits = IF exito THEN 1 ELSE 0,
                           !.rollbacks = IF exito THEN 0 ELSE 1]]

\* A request that changes nothing durable and leaves the cart alone.
SinCambio(r) ==
    [productos |-> productos, compras |-> compras, carrito |-> carrito, res |-> r]

----------------------------------------------------------------------------
(* app.py: single-item purchase *)

\* comprar_producto(pid) for the logged-in user u and form value f.
\* Statements: 1 SELECT, 2 INSERT, 3 UPDATE, 4 commit.
comprar_producto(u, pid, f, fallo) ==
    LET op == "comprar_producto"
        c == LeerCantidad(f)
    IN  IF es_admin(u) THEN SinCambio(Resultado(op, "prohibido"))
        ELSE IF ~c.ok THEN SinCambio(Resultado(op, "cantidad_invalida"))
        ELSE IF fallo = 1
        THEN SinCambio([Resultado(op, "excepcion") EXCEPT !.conexiones = 1])
        ELSE IF pid \notin DOMAIN productos
        THEN SinCambio([Resultado(op, "no_encontrado")
                          EXCEPT !.conexiones = 1, !.cerradas = 1, !.lecturas = 1])
        ELSE IF Insuficiente(productos[pid].cantidad, c.n)
        THEN SinCambio([Resultado(op, "stock_insuficiente")
                          EXCEPT !.conexiones = 1, !.cerradas = 1, !.lecturas = 1,
                                 !.disponible = productos[pid].cantidad])
        ELSE Aplicar(op, <<Insert(u, pid, c.n), Update(pid, c.n)>>, 1, fallo, 1, FALSE)

----------------------------------------------------------------------------
(* app.py: the session cart *)

\* session['carrito'] is a dict str(pid) -> {id, nombre, precio, cantidad};
\* it is modelled as the sequence of its (key, item) pairs in iteration order.
Claves(c) == { c[i].clave : i \in 1..Len(c) }

\* The position of key k in the cart (k is one of its keys).
Posicion(c, k) == CHOOSE i \in 1..Len(c) : c[i].clave = k

\* carrito.pop(k)
Quitar(c, k) == SelectSeq(c, LAMBDA e : e.clave # k)

\* The cart c after n units of the product of row p are put under key k: added
\* to the line of that key, or a new line at the end.
AgregarLinea(c, k, p, n) ==
    IF k \in Claves(c)
    THEN [c EXCEPT ![Posicion(c, k)].item.cantidad = @ + n]
    ELSE Append(c, [clave |-> k,
                    item |-> [id |-> p.id, nombre |-> p.nombre,
                              precio |-> p.precio, cantidad |-> n]])

\* Mutant: a product already in the cart has its line replaced by the new
\* amount.
agregar_al_carritoReemplaza(pid, f) ==
    LET op == "agregar_al_carrito"
        c == LeerCantidad(f)
        leido == [Resultado(op, "ok")
                    EXCEPT !.conexiones = 1, !.cerradas = 1, !.lecturas = 1]
        k == Str(pid)
        linea == [clave |-> k,
                  item |-> [id |-> productos[pid].id,
                            nombre |-> productos[pid].nombre,
                            precio |-> productos[pid].precio,
                            cantidad |-> c.n]]
    IN  IF ~c.ok THEN SinCambio(Resultado(op, "cantidad_invalida"))
        ELSE IF pid \notin DOMAIN productos
        THEN SinCambio([leido EXCEPT !.resultado = "no_encontrado"])
        ELSE IF Insuficiente(productos[pid].cantidad, c.n)
        THEN SinCambio([leido EXCEPT !.resultado = "stock_insuficiente",
                                     !.disponible = productos[pid].cantidad])
        ELSE [SinCambio(leido) EXCEPT !.carrito =
                 IF k \in Claves(carrito)
                 THEN [carrito EXCEPT ![Posicion(carrito, k)] = linea]
                 ELSE Append(carrito, linea)]

\* agregar_al_carrito(pid) with form value f.  No role check.
agregar_al_carrito(pid, f) ==
    LET op == "agregar_al_carrito"
        c == LeerCantidad(f)
        leido == [Resultado(op, "ok")
                    EXCEPT !.conexiones = 1, !.cerradas = 1, !.lecturas = 1]
        k == Str(pid)
    IN  IF ~c.ok THEN SinCambio(Resultado(op, "cantidad_invalida"))
        ELSE IF pid \notin DOMAIN productos
        THEN SinCambio([leido EXCEPT !.resultado = "no_encontrado"])
        ELSE IF Insuficiente(productos[pid].cantidad, c.n)
        THEN SinCambio([leido EXCEPT !.resultado = "stock_insuficiente",
                                     !.disponible = productos[pid].cantidad])
        ELSE [SinCambio(leido) EXCEPT !.carrito =
                 AgregarLinea(carrito, k, productos[pid], c.n)]

\* eliminar(producto_id): drop one line of the cart.
eliminar(producto_id) ==
    LET op == "eliminar"
        k == Str(producto_id)
    IN  IF k \in Claves(carrito)
        THEN [SinCambio(Resultado(op, "ok")) EXCEPT !.carrito = Quitar(carrito, k)]
        ELSE SinCambio(Resultado(op, "no_encontrado"))

\* vaciar(): session['carrito'] = {}
vaciar == [SinCambio(Resultado("vaciar", "ok")) EXCEPT !.carrito = <<>>]

----------------------------------------------------------------------------
(* app.py: cart checkout *)

\* Mutant: the loop checks that the product exists but not its stock.
RECURSIVE ValidarSinStock(_, _, _)
ValidarSinStock(c, i, fallo) ==
    LET abierto == [Resultado("comprar_carrito", "ok") EXCEPT !.conexiones = 1]
    IN  IF i > Len(c) THEN [abierto EXCEPT !.lecturas = Len(c)]
        ELSE IF fallo = i
        THEN [abierto EXCEPT !.resultado = "excepcion", !.lecturas = i - 1]
        ELSE IF IntOf(c[i].clave) \notin DOMAIN productos
        THEN [abierto EXCEPT !.resultado = "no_encontrado", !.lecturas = i,
                             !.cerradas = 1, !.nombre = c[i].item.nombre]
        ELSE ValidarSinStock(c, i + 1, fallo)

\* Mutant: the loop does not stop at a failing line; it reports the last one.
RECURSIVE ValidarHastaElFinal(_, _, _)
ValidarHastaElFinal(c, i, fallo) ==
    LET abierto == [Resultado("comprar_carrito", "ok") EXCEPT !.conexiones = 1]
        pid == IntOf(c[i].clave)
        resto == ValidarHastaElFinal(c, i + 1, fallo)
    IN  IF i > Len(c) THEN [abierto EXCEPT !.lecturas = Len(c)]
        ELSE IF fallo = i
        THEN [abierto EXCEPT !.resultado = "excepcion", !.lecturas = i - 1]
        ELSE IF resto.resultado # "ok" THEN resto
        ELSE IF pid \notin DOMAIN productos
        THEN [abierto EXCEPT !.resultado = "no_encontrado", !.lecturas = i,
                             !.cerradas = 1, !.nombre = c[i].item.nombre]
        ELSE IF Insuficiente(productos[pid].cantidad, c[i].item.cantidad)
        THEN [abierto EXCEPT !.resultado = "stock_insuficiente", !.lecturas = i,
                             !.cerradas = 1, !.nombre = c[i].item.nombre,
                             !.disponible = productos[pid].cantidad]
        ELSE resto

\* The validation loop over the cart from line i on; SELECT number i raises
\* when the fault names it.  It stops at the first line whose product is
\* missing or short on stock.
RECURSIVE Validar(_, _, _)
Validar(c, i, fallo) ==
    LET op == "comprar_carrito"
        pid == IntOf(c[i].clave)
        item == c[i].item
        abierto == [Resultado(op, "ok") EXCEPT !.conexiones = 1]
    IN  IF i > Len(c) THEN [abierto EXCEPT !.lecturas = Len(c)]
        ELSE IF fallo = i
        THEN [abierto EXCEPT !.resultado = "excepcion", !.lecturas = i - 1]
        ELSE IF pid \notin DOMAIN productos
        THEN [abierto EXCEPT !.resultado = "no_encontrado", !.lecturas = i,
                             !.cerradas = 1, !.nombre = item.nombre]
        ELSE IF Insuficiente(productos[pid].cantidad, item.cantidad)
        THEN [abierto EXCEPT !.resultado = "stock_insuficiente", !.lecturas = i,
                             !.cerradas = 1, !.nombre = item.nombre,
                             !.disponible = productos[pid].cantidad]
        ELSE Validar(c, i + 1, fallo)

\* Mutant: the apply loop ends after the first line.
SentenciasPrimera(u, c) ==
    IF Len(c) = 0 THEN <<>>
    ELSE <<Insert(u, IntOf(Head(c).clave), Head(c).item.cantidad),
           Update(IntOf(Head(c).clave), Head(c).item.cantidad)>>

\* The statements of the apply loop: INSERT then UPDATE for every line.
RECURSIVE Sentencias(_, _)
Sentencias(u, c) ==
    IF Len(c) = 0 THEN <<>>
    ELSE <<Insert(u, IntOf(Head(c).clave), Head(c).item.cantidad),
           Update(IntOf(Head(c).clave), Head(c).item.cantidad)>>
         \o Sentencias(u, Tail(c))

\* comprar_carrito() for the logged-in user u.  With n cart lines the
\* statements are: 1..n the SELECTs, n+2j-1 and n+2j the INSERT and UPDATE of
\* line j, 3n+1 the commit.
comprar_carrito(u, fallo) ==
    LET op == "comprar_carrito"
        v == Validar(carrito, 1, fallo)
    IN  IF es_admin(u) THEN SinCambio(Resultado(op, "prohibido"))
        ELSE IF Len(carrito) = 0 THEN SinCambio(Resultado(op, "carrito_vacio"))
        ELSE IF v.resultado # "ok" THEN SinCambio(v)
        ELSE Aplicar(op, Sentencias(u, carrito), Len(carrito), fallo,
                     v.lecturas, TRUE)

----------------------------------------------------------------------------
(* app.py: product deletion by the administrator *)

\* eliminar_producto(pid): DELETE FROM productos WHERE id = pid, committed
\* when a row was deleted.
eliminar_producto(u, pid) ==
    LET op == "eliminar_producto"
        abierto == [Resultado(op, "ok") EXCEPT !.conexiones = 1, !.cerradas = 1]
    IN  IF ~es_admin(u) THEN SinCambio(Resultado(op, "prohibido"))
        ELSE IF pid \in DOMAIN productos
        THEN [SinCambio([abierto EXCEPT !.commits = 1]) EXCEPT !.productos =
                 [q \in DOMAIN productos \ {pid} |-> productos[q]]]
        ELSE SinCambio([abierto EXCEPT !.resultado = "no_encontrado"])

----------------------------------------------------------------------------
(* app.py: product creation and edition by the administrator *)

\* What ProductoForm submits.  The form class is not part of the sources:
\* validate_on_submit() is either outcome.  A valid creation form carries the
\* catalogue's name and price for the new id and the stock a product starts
\* with; a valid edition form carries the values it was prefilled with.
FormulariosProducto == { [valido |-> FALSE], [valido |-> TRUE] }

\* crear_producto() with form f.  Statements: 1 INSERT, 2 commit.  The new
\* row takes the id id of the AUTO_INCREMENT counter.
crear_producto(u, f, id, fallo) ==
    LET op == "crear_producto"
        abierto == [Resultado(op, "ok") EXCEPT !.conexiones = 1, !.cerradas = 1]
        fila == [id |-> id, nombre |-> NombreDe(id), cantidad |-> MaxStock,
                 precio |-> Flt(id)]
    IN  IF ~es_admin(u) THEN SinCambio(Resultado(op, "prohibido"))
        ELSE IF ~f.valido THEN SinCambio(Resultado(op, "formulario"))
        ELSE IF fallo \in {1, 2}
        THEN SinCambio([abierto EXCEPT !.resultado = "error", !.rollbacks = 1])
        ELSE [SinCambio([abierto EXCEPT !.commits = 1])
                EXCEPT !.productos = (id :> fila) @@ productos]

\* editar_producto(pid) with form f.  Statements: 1 SELECT, 2 UPDATE,
\* 3 commit.  After a failed UPDATE or commit the connection is closed in the
\* finally block and once more after it.
editar_producto(u, pid, f, fallo) ==
    LET op == "editar_producto"
        leido == [Resultado(op, "ok")
                    EXCEPT !.conexiones = 1, !.cerradas = 1, !.lecturas = 1]
    IN  IF ~es_admin(u) THEN SinCambio(Resultado(op, "prohibido"))
        ELSE IF fallo = 1
        THEN SinCambio([Resultado(op, "excepcion") EXCEPT !.conexiones = 1])
        ELSE IF pid \notin DOMAIN productos
        THEN SinCambio([leido EXCEPT !.resultado = "no_encontrado"])
        ELSE IF ~f.valido THEN SinCambio([leido EXCEPT !.resultado = "formulario"])
        ELSE IF fallo \in {2, 3}
        THEN SinCambio([leido EXCEPT !.resultado = "error", !.rollbacks = 1,
                                     !.cerradas = 2])
        ELSE [SinCambio([leido EXCEPT !.commits = 1])
                EXCEPT !.productos = [productos EXCEPT ![pid] =
                    [id |-> pid, nombre |-> @.nombre, cantidad |-> @.cantidad,
                     precio |-> @.precio]]]

----------------------------------------------------------------------------
(* inventario_poo_sqlite.py: the Producto entity *)

\* A name is a sequence of characters; " " is whitespace.
RECURSIVE LStrip(_)
LStrip(s) == IF Len(s) > 0 /\ Head(s) = " " THEN LStrip(Tail(s)) ELSE s

RECURSIVE RStrip(_)
RStrip(s) ==
    IF Len(s) > 0 /\ s[Len(s)] = " " THEN RStrip(SubSeq(s, 1, Len(s) - 1)) ELSE s

\* str.strip()
Strip(s) == LStrip(RStrip(s))

\* Mutant: the id test is  value < 0, so an id of 0 passes.
IdInvalidoNegativo(v) == v < 0

\* The four validating setters.  Each is TRUE when the setter raises
\* ValueError; the price test is the float comparison  value < 0.
IdInvalido(v) == v <= 0
NombreInvalido(v) == Strip(v) = <<>>
CantidadInvalida(v) == v < 0
PrecioInvalido(v) == FloatLt(v, Flt(0))

\* Producto(id=..., nombre=..., cantidad=..., precio=..., categoria=...): the
\* generated __init__ assigns the fields through the setters.  ok is FALSE
\* when one of them raises ValueError.
NuevoProducto(id, nombre, cantidad, precio, categoria) ==
    [ok |-> ~( IdInvalido(id) \/ NombreInvalido(nombre)
               \/ CantidadInvalida(cantidad) \/ PrecioInvalido(precio) ),
     p |-> [id |-> id, nombre |-> Strip(nombre), cantidad |-> cantidad,
            precio |-> precio, categoria |-> categoria]]

----------------------------------------------------------------------------
(* inventario_poo_sqlite.py: the SQLite table *)

\* The constraints of table productos on a row: NOT NULL on every column (a
\* NaN is bound as NULL), CHECK (cantidad >= 0), CHECK (precio >= 0).
FilaAdmitida(p) == ~p.precio.nan /\ p.cantidad >= 0 /\ p.precio.v >= 0

\* The outcome of a persistence call: the table it leaves and whether it
\* raised.  falla is an error of the database itself (locked, disk full).

\* _insertar_bd(p): INSERT; the primary key must be new.
InsertarBD(t, p, falla) ==
    IF falla \/ p.id \in DOMAIN t \/ ~FilaAdmitida(p)
    THEN [tabla |-> t, ok |-> FALSE]
    ELSE [tabla |-> (p.id :> p) @@ t, ok |-> TRUE]

\* _actualizar_bd(p): UPDATE ... WHERE id = p.id writes every column; it
\* touches no row, and raises nothing, when the id has no row.
ActualizarBD(t, p, falla) ==
    IF falla THEN [tabla |-> t, ok |-> FALSE]
    ELSE IF p.id \notin DOMAIN t THEN [tabla |-> t, ok |-> TRUE]
    ELSE IF ~FilaAdmitida(p) THEN [tabla |-> t, ok |-> FALSE]
    ELSE [tabla |-> [t EXCEPT ![p.id] = p], ok |-> TRUE]

\* _eliminar_bd(pid): DELETE ... WHERE id = pid
EliminarBD(t, pid, falla) ==
    IF falla THEN [tabla |-> t, ok |-> FALSE]
    ELSE [tabla |-> [q \in DOMAIN t \ {pid} |-> t[q]], ok |-> TRUE]

----------------------------------------------------------------------------
(* inventario_poo_sqlite.py: the Inventario repository *)

ResInv(op, resultado) == [op |-> op, resultado |-> resultado]

\* The state a call leaves: the dict, the table and what the caller sees.
Queda(m, t, r) == [inv |-> m, tabla |-> t, resInv |-> r]

\* What the caller sees of a persistence call made last in a method.
Persistido(op, bd) == ResInv(op, IF bd.ok THEN "ok" ELSE "error_bd")

\* Mutant: no test for an id already present; the new object replaces the old.
agregar_productoSobrescribe(producto, falla) ==
    LET bd == InsertarBD(tabla, producto, falla)
    IN  Queda((producto.id :> producto) @@ inv, bd.tabla,
              Persistido("agregar_producto", bd))

\* Mutant: the product is stored with the default category.
agregar_productoCategoriaGeneral(producto, falla) ==
    LET op == "agregar_producto"
        q == [producto EXCEPT !.categoria = "General"]
    IN  IF q.id \in DOMAIN inv THEN Queda(inv, tabla, ResInv(op, "ValueError"))
        ELSE LET bd == InsertarBD(tabla, q, falla)
             IN  Queda((q.id :> q) @@ inv, bd.tabla, Persistido(op, bd))

\* agregar_producto(producto)
agregar_producto(producto, falla) ==
    LET op == "agregar_producto" IN
    IF producto.id \in DOMAIN inv THEN Queda(inv, tabla, ResInv(op, "ValueError"))
    ELSE LET m == (producto.id :> producto) @@ inv
             bd == InsertarBD(tabla, producto, falla)
         IN  Queda(m, bd.tabla, Persistido(op, bd))

\* Mutant: an unknown id is not tested; the DELETE runs and the call returns.
eliminar_producto_invSinComprobar(pid, falla) ==
    LET bd == EliminarBD(tabla, pid, falla)
    IN  Queda([q \in DOMAIN inv \ {pid} |-> inv[q]], bd.tabla,
              Persistido("eliminar_producto", bd))

\* eliminar_producto(pid)
eliminar_producto_inv(pid, falla) ==
    LET op == "eliminar_producto" IN
    IF pid \notin DOMAIN inv THEN Queda(inv, tabla, ResInv(op, "KeyError"))
    ELSE LET m == [q \in DOMAIN inv \ {pid} |-> inv[q]]
             bd == EliminarBD(tabla, pid, falla)
         IN  Queda(m, bd.tabla, Persistido(op, bd))

\* Mutant: the setter does not validate; the value is stored and persisted.
ActualizarSinValidar(op, pid, invalido, nuevo, falla) ==
    IF pid \notin DOMAIN inv THEN Queda(inv, tabla, ResInv(op, "KeyError"))
    ELSE LET bd == ActualizarBD(tabla, nuevo, falla)
         IN  Queda([inv EXCEPT ![pid] = nuevo], bd.tabla, Persistido(op, bd))

\* The shape shared by the four actualizar_* methods: obtener_por_id, the
\* setter (invalido: it raises), then _actualizar_bd of the mutated object.
Actualizar(op, pid, invalido, nuevo, falla) ==
    IF pid \notin DOMAIN inv THEN Queda(inv, tabla, ResInv(op, "KeyError"))
    ELSE IF invalido THEN Queda(inv, tabla, ResInv(op, "ValueError"))
    ELSE LET bd == ActualizarBD(tabla, nuevo, falla)
         IN  Queda([inv EXCEPT ![pid] = nuevo], bd.tabla, Persistido(op, bd))

\* actualizar_cantidad(pid, nueva_cantidad)
actualizar_cantidad(pid, v, falla) ==
    Actualizar("actualizar_cantidad", pid, CantidadInvalida(v),
               [inv[pid] EXCEPT !.cantidad = v], falla)

\* actualizar_precio(pid, nuevo_precio)
actualizar_precio(pid, v, falla) ==
    Actualizar("actualizar_precio", pid, PrecioInvalido(v),
               [inv[pid] EXCEPT !.precio = v], falla)

\* actualizar_nombre(pid, nuevo_nombre)
actualizar_nombre(pid, v, falla) ==
    Actualizar("actualizar_nombre", pid, NombreInvalido(v),
               [inv[pid] EXCEPT !.nombre = Strip(v)], falla)

\* actualizar_categoria(pid, nueva_categoria): the field has no setter.
actualizar_categoria(pid, v, falla) ==
    Actualizar("actualizar_categoria", pid, FALSE,
               [inv[pid] EXCEPT !.categoria = v], falla)

\* Inventario(db_name) on the existing database: _cargar_desde_bd builds the
\* dict from the rows of the table.
cargar_desde_bd(t) == [q \in DOMAIN t |-> t[q]]

\* obtener_por_id(pid): found is FALSE when it raises KeyError.
obtener_por_id(pid) ==
    IF pid \in DOMAIN inv THEN [found |-> TRUE, p |-> inv[pid]]
    ELSE [found |-> FALSE, p |-> <<>>]

\* Producto.from_row(row): the constructor applied to the columns of a row.
from_row(r) == NuevoProducto(r.id, r.nombre, r.cantidad, r.precio, r.categoria).p

\* str.lower() and SQLite's lower() on the characters used here.
LowerChar(c) == IF c = "A" THEN "a" ELSE IF c = "B" THEN "b" ELSE c
Lower(s) == [i \in 1..Len(s) |-> LowerChar(s[i])]

\* Python's  t in s  on strings.
Contiene(t, s) ==
    \E i \in 0..(Len(s) - Len(t)) : SubSeq(s, i + 1, i + Len(t)) = t

\* SQLite's  s LIKE patron : "%" matches any run of characters, "_" any one
\* character, and letters match without regard to case.
RECURSIVE Like(_, _)
Like(patron, s) ==
    IF Len(patron) = 0 THEN Len(s) = 0
    ELSE IF Head(patron) = "%"
    THEN Like(Tail(patron), s) \/ (Len(s) > 0 /\ Like(patron, Tail(s)))
    ELSE /\ Len(s) > 0
         /\ Head(patron) = "_" \/ LowerChar(Head(patron)) = LowerChar(Head(s))
         /\ Like(Tail(patron), Tail(s))

\* buscar_por_nombre(termino): the list it returns is the matches of the dict
\* (memoria) followed by the rows of the SELECT ... LIKE whose id is not among
\* them (bd).  The order inside each part is the dict's and the SELECT's and
\* is not modelled: each part is a set.
buscar_por_nombre(termino) ==
    LET t == Lower(Strip(termino))
        encontrados == { id \in DOMAIN inv : Contiene(t, Lower(inv[id].nombre)) }
        filas == { id \in DOMAIN tabla :
                     Like(<<"%">> \o t \o <<"%">>, Lower(tabla[id].nombre)) }
    IN  [memoria |-> { inv[id] : id \in encontrados },
         bd |-> { from_row(tabla[id]) : id \in filas \ encontrados }]

\* sorted(values, key=lambda p: p.id): the values of d under the keys ks, by
\* ascending id.
RECURSIVE OrdenarPorId(_, _)
OrdenarPorId(d, ks) ==
    IF ks = {} THEN <<>>
    ELSE LET k == CHOOSE x \in ks : \A y \in ks : d[x].id <= d[y].id
         IN  <<d[k]>> \o OrdenarPorId(d, ks \ {k})

\* Mutant: the list is read from the table instead of the dict.
listar_todosDeTabla == OrdenarPorId(tabla, DOMAIN tabla)

\* listar_todos(): the products of the dict, ordered by id.
listar_todos == OrdenarPorId(inv, DOMAIN inv)

\* sum(p.cantidad for p in values): the quantities of d under the keys ks,
\* added up.
RECURSIVE SumarCantidades(_, _)
SumarCantidades(d, ks) ==
    IF ks = {} THEN 0
    ELSE LET k == CHOOSE x \in ks : TRUE
         IN  d[k].cantidad + SumarCantidades(d, ks \ {k})

\* stock_total(): the sum of cantidad over the products of the dict.
stock_total == SumarCantidades(inv, DOMAIN inv)

----------------------------------------------------------------------------
(* inventario_poo_sqlite.py: the calls as actions *)

\* The values the calls are made with.
IdsInv == {0, 1, 2}
NombresInv == { <<>>, <<" ">>, <<"a">>, <<" ", "B">> }
CantidadesInv == {-1, 0, 1}
PreciosInv == { NaN, Flt(-1), Flt(0) }
CategoriasInv == { "General", "Otra" }

\* The search terms.
Terminos == { <<>>, <<"a">>, <<"A">>, <<"b">>, <<" ", "b">>, <<"_">>, <<"%">> }

\* The Producto objects that exist: the ones the constructor returns.
Construidos ==
    LET intentos == { NuevoProducto(id, nombre, cantidad, precio, categoria) :
                        id \in IdsInv, nombre \in NombresInv,
                        cantidad \in CantidadesInv, precio \in PreciosInv,
                        categoria \in CategoriasInv }
    IN  { n.p : n \in { x \in intentos : x.ok } }

\* The call with id argument pid ends as r.  A call in which the database
\* raises, for whatever reason, counts against the cap; a database error that
\* cannot happen (the call never reaches the database) is not drawn.
HacerInv(pid, r, falla) ==
    LET error == r.resInv.resultado = "error_bd"
    IN  /\ error => fallosBD < MaxFallosBD
        /\ falla => error
        /\ petInv' = pid
        /\ inv' = r.inv
        /\ tabla' = r.tabla
        /\ resInv' = r.resInv
        /\ fallosBD' = IF error THEN fallosBD + 1 ELSE fallosBD
        /\ UNCHANGED construido
        /\ UNCHANGED appVars

\* One call of agregar_producto with the object producto, where the database
\* raises when falla.
AgregarProductoDe(producto, falla) ==
    HacerInv(producto.id, agregar_producto(producto, falla), falla)

AgregarProducto ==
    \E producto \in Construidos, falla \in BOOLEAN : AgregarProductoDe(producto, falla)

EliminarProductoInv ==
    \E pid \in IdsInv, falla \in BOOLEAN :
        HacerInv(pid, eliminar_producto_inv(pid, falla), falla)

\* One call of actualizar_cantidad / precio / nombre with value v.
ActualizarCantidadDe(pid, v, falla) ==
    HacerInv(pid, actualizar_cantidad(pid, v, falla), falla)

ActualizarPrecioDe(pid, v, falla) ==
    HacerInv(pid, actualizar_precio(pid, v, falla), falla)

ActualizarNombreDe(pid, v, falla) ==
    HacerInv(pid, actualizar_nombre(pid, v, falla), falla)

ActualizarCantidad ==
    \E pid \in IdsInv, v \in CantidadesInv, falla \in BOOLEAN :
        ActualizarCantidadDe(pid, v, falla)

ActualizarPrecio ==
    \E pid \in IdsInv, v \in PreciosInv, falla \in BOOLEAN :
        ActualizarPrecioDe(pid, v, falla)

ActualizarNombre ==
    \E pid \in IdsInv, v \in NombresInv, falla \in BOOLEAN :
        ActualizarNombreDe(pid, v, falla)

ActualizarCategoria ==
    \E pid \in IdsInv, v \in CategoriasInv, falla \in BOOLEAN :
        HacerInv(pid, actualizar_categoria(pid, v, falla), falla)

\* The program is started again on the same database file.
Reabrir ==
    HacerInv(0, Queda(cargar_desde_bd(tabla), tabla, ResInv("Inventario", "ok")),
             FALSE)

\* A new database: empty table, empty dict.
InitInv ==
    /\ inv = <<>>
    /\ tabla = <<>>
    /\ petInv = 0
    /\ resInv = ResInv("Inventario", "ok")
    /\ fallosBD = 0

\* Producto(id=..., nombre=..., ...) called on its own, as the menu does before
\* agregar_producto: the object it returns, or none when it raises.
Construir ==
    \E id \in IdsInv, nombre \in NombresInv, cantidad \in CantidadesInv,
       precio \in PreciosInv, categoria \in CategoriasInv :
        LET n == NuevoProducto(id, nombre, cantidad, precio, categoria)
        IN  /\ construido' =
                 [args |-> [id |-> id, nombre |-> nombre, cantidad |-> cantidad,
                            precio |-> precio, categoria |-> categoria],
                  ok |-> n.ok,
                  p |-> IF n.ok THEN n.p ELSE <<>>]
            /\ UNCHANGED <<inv, tabla, petInv, resInv, fallosBD>>
            /\ UNCHANGED appVars

\* No constructor call yet.
InitProducto == construido = [args |-> <<>>, ok |-> FALSE, p |-> <<>>]

NextProducto == Construir

NextInv ==
    \/ AgregarProducto
    \/ EliminarProductoInv
    \/ ActualizarCantidad
    \/ ActualizarPrecio
    \/ ActualizarNombre
    \/ ActualizarCategoria
    \/ Reabrir

----------------------------------------------------------------------------
(* app.py: the requests as actions *)

\* The statements a purchase or a checkout that ends as r0 issues when none
\* raises: its SELECTs and, when it commits, an INSERT and an UPDATE for each
\* of them and the commit.
SentenciasDe(r0) ==
    IF r0.res.commits = 1 THEN 3 * r0.res.lecturas + 1 ELSE r0.res.lecturas

\* The numbers a fault can name in that request: no statement (0) or one of
\* the statements it reaches.
FallosDe(r0) == 0..SentenciasDe(r0)

\* A request: the logged-in user (Nadie on the routes that do not look at
\* it) and the number of the statement that raised while it was served (0:
\* none).
Nadie == [id |-> 0, rol |-> "ninguno"]
Peticion(u, fallo) == [usuario |-> u, fallo |-> fallo]

\* The request e is served and ends as r.
Hacer(e, r) ==
    /\ pet' = e
    /\ res' = r.res
    /\ productos' = r.productos
    /\ compras' = r.compras
    /\ carrito' = r.carrito
    /\ autoId' = autoId
    /\ sesiones' = sesiones
    /\ UNCHANGED invVars

\* A fault is drawn only for a statement the request reaches: naming a
\* statement that never runs gives the run without fault, r0.
Alcanzado(r, r0, fallo) == fallo # 0 => r # r0

\* One request of user u to buy product pid with form value f, where
\* statement number fallo raises.
ComprarProductoDe(u, pid, f, fallo) ==
    /\ Len(compras) < MaxCompras
    /\ Hacer(Peticion(u, fallo), comprar_producto(u, pid, f, fallo))

ComprarProducto ==
    \E u \in Usuarios, pid \in Pids, f \in Formularios :
        \E fallo \in FallosDe(comprar_producto(u, pid, f, 0)) :
            ComprarProductoDe(u, pid, f, fallo)

\* One request of user u to check the cart out, where statement number fallo
\* raises.
ComprarCarritoDe(u, fallo) ==
    /\ Len(compras) + Len(carrito) <= MaxCompras
    /\ Hacer(Peticion(u, fallo), comprar_carrito(u, fallo))

ComprarCarrito ==
    \E u \in Usuarios :
        \E fallo \in FallosDe(comprar_carrito(u, 0)) : ComprarCarritoDe(u, fallo)

\* One request to add product pid to the cart with form value f.
AgregarAlCarritoDe(pid, f) ==
    LET r == agregar_al_carrito(pid, f)
    IN  /\ \A i \in 1..Len(r.carrito) : r.carrito[i].item.cantidad <= MaxLinea
        /\ Hacer(Peticion(Nadie, 0), r)

AgregarAlCarrito == \E pid \in Pids, f \in Formularios : AgregarAlCarritoDe(pid, f)

Eliminar == \E pid \in Pids : Hacer(Peticion(Nadie, 0), eliminar(pid))

Vaciar == Hacer(Peticion(Nadie, 0), vaciar)

EliminarProducto ==
    \E u \in Usuarios, pid \in Pids : Hacer(Peticion(u, 0), eliminar_producto(u, pid))

\* The shop after installation: every product in stock, no purchase, empty cart.
InitApp ==
    /\ productos = [pid \in Pids |-> [id |-> pid, nombre |-> NombreDe(pid),
                                      cantidad |-> MaxStock, precio |-> Flt(pid)]]
    /\ compras = <<>>
    /\ autoId = Cardinality(Pids) + 1
    /\ carrito = <<>>
    /\ pet = Peticion(Nadie, 0)
    /\ res = Resultado("init", "ok")
    /\ sesiones = [s \in Sesiones |-> SesionLibre(<<>>)]

\* The shop before any product is created: empty tables.
InitVacia ==
    /\ productos = <<>>
    /\ compras = <<>>
    /\ autoId = 1
    /\ carrito = <<>>
    /\ pet = Peticion(Nadie, 0)
    /\ res = Resultado("init", "ok")
    /\ sesiones = [s \in Sesiones |-> SesionLibre(<<>>)]

\* One request to crear_producto.  The catalogue is capped at the ids of
\* Pids.  An INSERT that ran has taken its id from the counter, also when the
\* transaction is rolled back.
CrearProducto ==
    \E u \in Usuarios, f \in FormulariosProducto, fallo \in 0..2 :
        LET r == crear_producto(u, f, autoId, fallo)
        IN  /\ autoId \in Pids
            /\ Alcanzado(r, crear_producto(u, f, autoId, 0), fallo)
            /\ pet' = Peticion(u, fallo)
            /\ res' = r.res
            /\ productos' = r.productos
            /\ compras' = r.compras
            /\ carrito' = r.carrito
            /\ autoId' = IF r.res.conexiones = 1 /\ fallo # 1
                          THEN autoId + 1 ELSE autoId
            /\ sesiones' = sesiones
            /\ UNCHANGED invVars

\* One request to editar_producto.
EditarProducto ==
    \E u \in Usuarios, pid \in Pids, f \in FormulariosProducto, fallo \in 0..3 :
        LET r == editar_producto(u, pid, f, fallo)
        IN  /\ Alcanzado(r, editar_producto(u, pid, f, 0), fallo)
            /\ Hacer(Peticion(u, fallo), r)

Init == InitApp /\ InitInv /\ InitProducto

Next ==
    \/ ComprarProducto
    \/ ComprarCarrito
    \/ AgregarAlCarrito
    \/ Eliminar
    \/ Vaciar
    \/ EliminarProducto

\* app.py, one request at a time.
Spec == Init /\ [][Next]_vars

\* app.py without the administrator's requests: purchases, checkouts and the
\* cart, one request at a time.
NextCompras ==
    \/ ComprarProducto
    \/ ComprarCarrito
    \/ AgregarAlCarrito
    \/ Eliminar
    \/ Vaciar

SpecCompras == Init /\ [][NextCompras]_vars

\* app.py with the administrator's product forms, from an empty catalogue.
NextAdmin ==
    \/ Next
    \/ CrearProducto
    \/ EditarProducto

InitAdmin == InitVacia /\ InitInv /\ InitProducto

SpecAdmin == InitAdmin /\ [][NextAdmin]_vars

----------------------------------------------------------------------------
(* app.py: requests of two sessions served at the same time.  app.run       *)
(* serves every request in a thread of its own and each request opens its   *)
(* own connection.  A purchase or a checkout is two steps: the validation,  *)
(* which reads the committed stock, and the apply phase, whose transaction  *)
(* acts on the rows committed at the moment it runs (the UPDATE is relative, *)
(* cantidad = cantidad - n, and takes the row's latest committed value; the *)
(* row lock it holds until the commit makes the apply phases of two         *)
(* requests on the same product run one after the other).  Statements are   *)
(* numbered as in the whole request, and the one a fault names raises.      *)

\* The purchase records that the requests in flight of the sessions S will
\* insert.
RECURSIVE EnVuelo(_)
EnVuelo(S) ==
    IF S = {} THEN 0
    ELSE LET s == CHOOSE x \in S : TRUE
         IN  Len(sesiones[s].sentencias) \div 2 + EnVuelo(S \ {s})

\* A request of session s, in which statement fallo raised, ends as r without
\* having changed a row.
TerminaSinCambio(s, fallo, r) ==
    /\ pet' = Peticion(Cliente(s), fallo)
    /\ res' = r
    /\ UNCHANGED <<productos, compras, autoId, carrito, sesiones>>
    /\ UNCHANGED invVars

\* A request op of session s has passed its validation, in which it read the
\* stock values leido, and is about to run the statements ss.
PasaValidacion(s, op, ss, leido) ==
    /\ sesiones' = [sesiones EXCEPT ![s] =
                       [@ EXCEPT !.fase = "validado", !.op = op,
                                 !.sentencias = ss, !.leido = leido]]
    /\ UNCHANGED <<productos, compras, autoId, carrito, pet, res>>
    /\ UNCHANGED invVars

\* comprar_producto(pid) of session s up to its stock check: it is refused, or
\* it goes on to the try block.
ValidarCompra(s) ==
    \E pid \in Pids, f \in Formularios, fallo \in 0..1 :
        LET u == Cliente(s)
            r == comprar_producto(u, pid, f, fallo)
            n == LeerCantidad(f).n
        IN  /\ sesiones[s].fase = "libre"
            /\ Len(compras) + EnVuelo(Sesiones) + 1 <= MaxCompras
            /\ fallo = 1 => r.res.resultado = "excepcion"
            /\ IF r.res.resultado = "ok"
               THEN PasaValidacion(s, "comprar_producto",
                                   <<Insert(u, pid, n), Update(pid, n)>>,
                                   <<productos[pid].cantidad>>)
               ELSE TerminaSinCambio(s, fallo, r.res)

\* comprar_carrito() of session s up to the end of its validation loop.
ValidarCarrito(s) ==
    \E fallo \in 0..Len(sesiones[s].carrito) :
        LET u == Cliente(s)
            c == sesiones[s].carrito
            v == Validar(c, 1, fallo)
        IN  /\ sesiones[s].fase = "libre"
            /\ Len(compras) + EnVuelo(Sesiones) + Len(c) <= MaxCompras
            /\ fallo # 0 => v.resultado = "excepcion"
            /\ IF Len(c) = 0
               THEN TerminaSinCambio(s, fallo,
                                     Resultado("comprar_carrito", "carrito_vacio"))
               ELSE IF v.resultado # "ok" THEN TerminaSinCambio(s, fallo, v)
               ELSE PasaValidacion(s, "comprar_carrito", Sentencias(u, c),
                                   [i \in 1..Len(c) |->
                                       productos[IntOf(c[i].clave)].cantidad])

\* The try block of the request in flight of session s: its INSERTs and
\* UPDATEs and the commit, on the rows committed now; a checkout that commits
\* empties the cart of its session.
AplicarEnVueloDe(s, fallo) ==
    LET p == sesiones[s]
        a == Aplicar(p.op, p.sentencias, Len(p.leido), fallo, Len(p.leido), FALSE)
        vacia == p.op = "comprar_carrito" /\ a.res.commits = 1
    IN  /\ p.fase = "validado"
        /\ productos' = a.productos
        /\ compras' = a.compras
        /\ pet' = Peticion(Cliente(s), fallo)
        /\ res' = a.res
        /\ sesiones' = [sesiones EXCEPT ![s] =
                           SesionLibre(IF vacia THEN <<>> ELSE p.carrito)]
        /\ UNCHANGED <<autoId, carrito>>
        /\ UNCHANGED invVars

AplicarEnVuelo(s) ==
    \E fallo \in {0} \cup (Len(sesiones[s].leido) + 1)..
                           (Len(sesiones[s].leido) + Len(sesiones[s].sentencias) + 1) :
        AplicarEnVueloDe(s, fallo)

\* agregar_al_carrito(pid) of session s: one SELECT, then the session's cart.
AgregarEnSesion(s) ==
    \E pid \in Pids, f \in Formularios :
        LET r == agregar_al_carrito(pid, f)
            c == IF r.res.resultado = "ok"
                 THEN AgregarLinea(sesiones[s].carrito, Str(pid), productos[pid],
                                   LeerCantidad(f).n)
                 ELSE sesiones[s].carrito
        IN  /\ sesiones[s].fase = "libre"
            /\ \A i \in 1..Len(c) : c[i].item.cantidad <= MaxLinea
            /\ pet' = Peticion(Nadie, 0)
            /\ res' = r.res
            /\ sesiones' = [sesiones EXCEPT ![s].carrito = c]
            /\ UNCHANGED <<productos, compras, autoId, carrito>>
            /\ UNCHANGED invVars

NextCarrera ==
    \E s \in Sesiones :
        \/ ValidarCompra(s)
        \/ ValidarCarrito(s)
        \/ AplicarEnVuelo(s)
        \/ AgregarEnSesion(s)

\* The shop with one product in its catalogue, in stock; no purchase yet.
InitUnProducto ==
    /\ productos = [pid \in {1} |-> [id |-> pid, nombre |-> NombreDe(pid),
                                      cantidad |-> MaxStock, precio |-> Flt(pid)]]
    /\ compras = <<>>
    /\ autoId = 2
    /\ carrito = <<>>
    /\ pet = Peticion(Nadie, 0)
    /\ res = Resultado("init", "ok")
    /\ sesiones = [s \in Sesiones |-> SesionLibre(<<>>)]

InitCarrera == InitUnProducto /\ InitInv /\ InitProducto

\* app.py, the requests of two sessions interleaved.
SpecCarrera == InitCarrera /\ [][NextCarrera]_vars

\* inventario_poo_sqlite.py, one call at a time.
SpecInventario == Init /\ [][NextInv]_vars

\* inventario_poo_sqlite.py, the Producto constructor alone.
SpecProducto == Init /\ [][NextProducto]_vars

----------------------------------------------------------------------------
(* Properties of the purchase handlers of app.py.  Each one speaks of a     *)
(* single request: the unprimed variables are the state before it, the      *)
(* primed ones the state it leaves.                                         *)

\* The quantity a form value asks for, and whether it is a valid quantity.
Pedido(f) == IF f.tipo = "ausente" THEN 1 ELSE f.n
PedidoValido(f) == f.tipo # "texto" /\ Pedido(f) >= 1

\* Line i of the cart names a missing product / a product short on stock.
LineaSinProducto(i) == carrito[i].item.id \notin DOMAIN productos
LineaSinStock(i) ==
    /\ carrito[i].item.id \in DOMAIN productos
    /\ productos[carrito[i].item.id].cantidad < carrito[i].item.cantidad
LineaFalla(i) == LineaSinProducto(i) \/ LineaSinStock(i)
HayLineaFallida == \E i \in 1..Len(carrito) : LineaFalla(i)

\* The first failing line of the cart, in iteration order.
PrimeraFalla ==
    CHOOSE i \in 1..Len(carrito) :
        LineaFalla(i) /\ \A j \in 1..(i - 1) : ~LineaFalla(j)

\* The purchase record of user u for cart line i.
RegistroDeLinea(u, i) ==
    [usuario_id |-> u.id, producto_id |-> carrito[i].item.id,
     cantidad |-> carrito[i].item.cantidad]

\* No durable row changes in this step.
SinMutacion == productos' = productos /\ compras' = compras

\* No statement of a checkout of the current cart raises under fault number n.
SinFallo(n) == n = 0 \/ n > 3 * Len(carrito) + 1

\* The step is a request to comprar_producto / comprar_carrito; pet' holds
\* the user who made it and the statement that raised in it.
EsCompraProducto == res'.op = "comprar_producto"
EsCompraCarrito == res'.op = "comprar_carrito"
DeCliente == pet'.usuario.rol # "admin"

\* The step is the purchase request of the user of pet' for product pid with
\* form value f.
CompraDe(pid, f) == ComprarProductoDe(pet'.usuario, pid, f, pet'.fallo)

\* The purchase record of the user of pet' for q units of product pid.
Registro(pid, q) ==
    [usuario_id |-> pet'.usuario.id, producto_id |-> pid, cantidad |-> q]

\* C1: a cart checkout whose cart has a line naming a missing product or a
\* product with less stock than the line asks for aborts, and it changes no
\* product's stock and adds no purchase record, whichever line fails and
\* whatever lines precede it.
C1_CarritoTodoONada ==
    [][(EsCompraCarrito /\ HayLineaFallida)
         => /\ res'.resultado \in {"prohibido", "no_encontrado",
                                   "stock_insuficiente", "excepcion"}
            /\ res'.commits = 0
            /\ SinMutacion]_vars

\* C1 witness: a checkout of a two-line cart was refused at its second line.
C1_Witness ==
    /\ res.op = "comprar_carrito"
    /\ res.resultado \in {"no_encontrado", "stock_insuficiente"}
    /\ Len(carrito) = 2
    /\ res.lecturas = 2
    /\ ~LineaFalla(1)

\* C2: when a statement of the apply phase of a cart checkout raises (an
\* INSERT, an UPDATE or the commit, after any number of lines were applied),
\* the checkout rolls back and the committed stock of every product and the
\* committed purchase records are what they were before the checkout.
C2_RollbackEnAplicar ==
    [][(/\ EsCompraCarrito
        /\ pet'.fallo \in (Len(carrito) + 1)..(3 * Len(carrito) + 1))
         => /\ res'.resultado = "error"
            /\ res'.rollbacks = 1
            /\ res'.commits = 0
            /\ SinMutacion]_vars

\* C2 witness: a checkout failed after its first line was inserted and
\* decremented.
C2_Witness ==
    /\ res.op = "comprar_carrito"
    /\ res.resultado = "error"
    /\ Len(carrito) = 2
    /\ pet.fallo > Len(carrito) + 2

\* C3: a single-item purchase by a non-admin user of a quantity q >= 1 of an
\* existing product with stock s >= q, in which no statement raises, leaves
\* that product with stock s - q, adds exactly the record (user, product, q)
\* and leaves every other product as it was.
C3_CompraDescuenta ==
    [][(EsCompraProducto /\ DeCliente /\ pet'.fallo = 0)
         => \A pid \in DOMAIN productos, f \in Formularios :
               ( /\ PedidoValido(f)
                 /\ productos[pid].cantidad >= Pedido(f)
                 /\ CompraDe(pid, f) )
                 => /\ res'.resultado = "ok"
                    /\ productos' = [productos EXCEPT ![pid].cantidad = @ - Pedido(f)]
                    /\ compras' = Append(compras, Registro(pid, Pedido(f)))]_vars

\* C3 witness: a purchase of two units went through while another product
\* kept its stock.
C3_Witness ==
    /\ res.op = "comprar_producto"
    /\ res.resultado = "ok"
    /\ Len(compras) > 0
    /\ compras[Len(compras)].cantidad = 2
    /\ \E pid \in DOMAIN productos : productos[pid].cantidad = MaxStock

\* C4: a single-item purchase of a quantity q of a product whose stock s is
\* smaller than q is refused for insufficient stock, reports s as the
\* available amount, and changes neither the stock nor the purchase records.
C4_StockInsuficiente ==
    [][(EsCompraProducto /\ DeCliente /\ pet'.fallo # 1)
         => \A pid \in DOMAIN productos, f \in Formularios :
               ( /\ PedidoValido(f)
                 /\ productos[pid].cantidad < Pedido(f)
                 /\ CompraDe(pid, f) )
                 => /\ res'.resultado = "stock_insuficiente"
                    /\ res'.disponible = productos[pid].cantidad
                    /\ res'.commits = 0
                    /\ SinMutacion]_vars

\* C4 witness: a purchase was refused with a positive amount still available.
C4_Witness ==
    /\ res.op = "comprar_producto"
    /\ res.resultado = "stock_insuficiente"
    /\ res.disponible >= 1

\* C5: the INSERT of the purchase record and the UPDATE of the stock of a
\* single-item purchase are one unit: a request either commits both (one new
\* record, and its quantity taken from its product) or neither, and when the
\* INSERT, the UPDATE or the commit raises it rolls back and commits neither.
C5_CompraAtomica ==
    [][EsCompraProducto
         => /\ \/ SinMutacion
               \/ \E pid \in DOMAIN productos, q \in 1..MaxCantidad :
                     /\ compras' = Append(compras, Registro(pid, q))
                     /\ productos' = [productos EXCEPT ![pid].cantidad = @ - q]
            /\ pet'.fallo \in 2..4
                 => /\ res'.resultado = "error"
                    /\ res'.rollbacks = 1
                    /\ res'.commits = 0
                    /\ SinMutacion]_vars

\* C5 witness: the UPDATE of a purchase raised after its INSERT had run.
C5_Witness ==
    /\ res.op = "comprar_producto"
    /\ res.resultado = "error"
    /\ pet.fallo = 3

\* C6: a cart checkout by a non-admin user in which every line passes
\* validation and no statement raises takes from each line's product exactly
\* the line's quantity, adds exactly one record (user, product, quantity) per
\* line, leaves the products outside the cart as they were, and empties the
\* cart.
C6_CarritoAplicado ==
    [][(/\ EsCompraCarrito /\ DeCliente /\ SinFallo(pet'.fallo)
        /\ Len(carrito) > 0 /\ ~HayLineaFallida)
         => /\ res'.resultado = "ok"
            /\ res'.commits = 1
            /\ DOMAIN productos' = DOMAIN productos
            /\ \A i \in 1..Len(carrito) :
                  productos'[carrito[i].item.id] =
                      [productos[carrito[i].item.id] EXCEPT
                          !.cantidad = @ - carrito[i].item.cantidad]
            /\ \A pid \in DOMAIN productos :
                  (\A i \in 1..Len(carrito) : carrito[i].item.id # pid)
                      => productos'[pid] = productos[pid]
            /\ compras' = compras \o
                  [i \in 1..Len(carrito) |-> RegistroDeLinea(pet'.usuario, i)]
            /\ carrito' = <<>>]_vars

\* C6 witness: a checkout of two lines went through.
C6_Witness ==
    /\ res.op = "comprar_carrito"
    /\ res.resultado = "ok"
    /\ res.lecturas = 2
    /\ Len(compras) >= 2
    /\ carrito = <<>>

\* C7: a cart checkout with a failing line reports the first failing line in
\* cart iteration order: not found when its product is missing, insufficient
\* stock with the available amount when it is short, in both cases with the
\* line's name, and it reads the stock of no line after that one.
C7_PrimeraLineaFallida ==
    [][(/\ EsCompraCarrito /\ DeCliente /\ HayLineaFallida
        /\ pet'.fallo \notin 1..PrimeraFalla)
         =>   (  /\ res'.lecturas = PrimeraFalla
                 /\ res'.nombre = carrito[PrimeraFalla].item.nombre
                 /\ LineaSinProducto(PrimeraFalla)
                       => res'.resultado = "no_encontrado"
                 /\ LineaSinStock(PrimeraFalla)
                       => /\ res'.resultado = "stock_insuficiente"
                          /\ res'.disponible =
                               productos[carrito[PrimeraFalla].item.id].cantidad )]_vars

\* C7 witness: both lines of the cart fail and the checkout stopped at the
\* first.
C7_Witness ==
    /\ res.op = "comprar_carrito"
    /\ res.resultado \in {"no_encontrado", "stock_insuficiente"}
    /\ Len(carrito) = 2
    /\ LineaFalla(1)
    /\ LineaFalla(2)
    /\ res.lecturas = 1

\* C8: a purchase request or a cart checkout by an administrator is refused
\* before anything else happens: no connection is opened, no stock is read,
\* no row changes and the cart is left alone, whatever the product, the
\* quantity and the cart.
C8_AdminNoCompra ==
    [][((EsCompraProducto \/ EsCompraCarrito) /\ ~DeCliente)
         => /\ res' = Resultado(res'.op, "prohibido")
            /\ SinMutacion
            /\ carrito' = carrito]_vars

\* C8 witness: an administrator's checkout of a cart that would have gone
\* through was refused.
C8_Witness ==
    /\ res = Resultado("comprar_carrito", "prohibido")
    /\ pet.usuario.rol = "admin"
    /\ Len(carrito) > 0
    /\ ~HayLineaFallida

\* C9: a single-item purchase with a quantity below 1 or not an integer is
\* refused as an invalid quantity before the product is fetched: no connection
\* is opened, no stock is read and no row changes, whether the product exists
\* or not and whatever its stock.
C9_CantidadAntesDeLeer ==
    [][(EsCompraProducto /\ DeCliente)
         => \A pid \in Pids, f \in Formularios :
               (~PedidoValido(f) /\ CompraDe(pid, f))
                 => /\ res' = Resultado("comprar_producto", "cantidad_invalida")
                    /\ SinMutacion
                    /\ carrito' = carrito]_vars

\* C9 witness: an invalid quantity was refused while no product existed.
C9_Witness ==
    /\ res = Resultado("comprar_producto", "cantidad_invalida")
    /\ DOMAIN productos = {}

----------------------------------------------------------------------------
(* Properties of the stored products, in both programs. *)

\* A product row or object with quantity >= 0 and price >= 0.
NoNegativo(p) == p.cantidad >= 0 /\ FloatGe(p.precio, Flt(0))

\* The quantity alone.
CantidadNoNegativa(p) == p.cantidad >= 0

\* Every product of the shop's table.
TiendaNoNegativa == \A pid \in DOMAIN productos : NoNegativo(productos[pid])

\* Every quantity of the console inventory, in the dict and in the table.
CantidadesInvNoNegativas ==
    /\ \A id \in DOMAIN inv : CantidadNoNegativa(inv[id])
    /\ \A id \in DOMAIN tabla : CantidadNoNegativa(tabla[id])

\* C10: in every state reached by one-at-a-time store operations (add,
\* remove, update of quantity, price, name, category), purchases and cart
\* checkouts, every product has quantity >= 0 and price >= 0: the rows of the
\* shop's table, the objects of the inventory's dict and the rows of its
\* table.
C10_NoNegativos ==
    /\ TiendaNoNegativa
    /\ \A id \in DOMAIN inv : NoNegativo(inv[id])
    /\ \A id \in DOMAIN tabla : NoNegativo(tabla[id])

----------------------------------------------------------------------------
(* Properties of table compras of app.py. *)

\* C19: purchase records are append-only.  In every request (purchase, cart
\* checkout, failed purchase or checkout, product creation, edition and
\* deletion, cart handling) the committed records of before are still there,
\* unchanged and in place, and records are added only by a purchase or a
\* cart checkout that commits.
C19_ComprasSoloCrecen ==
    [][/\ Len(compras') >= Len(compras)
       /\ SubSeq(compras', 1, Len(compras)) = compras
       /\ compras' # compras
            => /\ res'.op \in {"comprar_producto", "comprar_carrito"}
               /\ res'.resultado = "ok"
               /\ res'.commits = 1]_vars

\* C19 witness: the product of a purchase record was deleted by the
\* administrator and the record is still there.
C19_Witness ==
    /\ res.op = "eliminar_producto"
    /\ res.resultado = "ok"
    /\ Len(compras) > 0
    /\ compras[1].producto_id \notin DOMAIN productos

----------------------------------------------------------------------------
(* Properties of the Inventario repository of inventario_poo_sqlite.py.     *)
(* petInv' and resInv' are the id argument and the outcome of the call the  *)
(* step makes.                                                              *)

\* The call of the step raised in its persistence step.
FalloPersistencia == resInv'.resultado = "error_bd"

\* C11: when the persistence step of a mutating call (agregar_producto,
\* eliminar_producto, actualizar_cantidad / precio / nombre / categoria)
\* fails on a store whose dict equals its table, the dict still equals the
\* table afterwards: the dict holds no add, removal or field change that the
\* table does not have.
C11_MemoriaIgualTabla ==
    [][(FalloPersistencia /\ inv = tabla) => inv' = tabla']_vars

\* C12: agregar_producto with a product whose id is already in the store
\* raises the duplicate-id ValueError and changes nothing: the dict and the
\* table keep their entries, and the product stored under that id keeps all
\* its field values.
C12_DuplicadoSinCambio ==
    [][(resInv'.op = "agregar_producto" /\ petInv' \in DOMAIN inv)
         => /\ resInv' = ResInv("agregar_producto", "ValueError")
            /\ inv' = inv
            /\ tabla' = tabla]_vars

\* C12 witness: an add was refused as a duplicate while the store held two
\* products.
C12_Witness ==
    /\ resInv = ResInv("agregar_producto", "ValueError")
    /\ petInv \in DOMAIN inv
    /\ Cardinality(DOMAIN inv) = 2

\* C13: eliminar_producto with an id that is not in the store raises KeyError
\* and leaves the dict and the table as they were, whatever they hold.
C13_EliminarDesconocido ==
    [][(resInv'.op = "eliminar_producto" /\ petInv' \notin DOMAIN inv)
         => /\ resInv' = ResInv("eliminar_producto", "KeyError")
            /\ inv' = inv
            /\ tabla' = tabla]_vars

\* C13 witness: a removal of an unknown id was refused while the store held
\* another product.
C13_Witness ==
    /\ resInv = ResInv("eliminar_producto", "KeyError")
    /\ petInv \notin DOMAIN inv
    /\ DOMAIN inv # {}
    /\ DOMAIN tabla # {}

\* C14: for every valid product p whose id is not in the store, a call
\* agregar_producto(p) that returns, followed by obtener_por_id(p.id), gives a
\* product equal to p in id, name, quantity, price and category, whatever
\* other products the store holds, and those stay as they were.
C14_AgregarYObtener ==
    [][(resInv' = ResInv("agregar_producto", "ok") /\ petInv' \notin DOMAIN inv)
         => \A producto \in Construidos :
               (producto.id = petInv' /\ AgregarProductoDe(producto, FALSE))
                 => /\ obtener_por_id(producto.id)' = [found |-> TRUE, p |-> producto]
                    /\ \A id \in DOMAIN inv : obtener_por_id(id)' = obtener_por_id(id)]_vars

\* C14 witness: a product of category "Otra" was added next to another
\* product and is the one the store returns.
C14_Witness ==
    /\ resInv = ResInv("agregar_producto", "ok")
    /\ Cardinality(DOMAIN inv) = 2
    /\ obtener_por_id(petInv).found
    /\ obtener_por_id(petInv).p.categoria = "Otra"

\* C15: after a call actualizar_cantidad(id, v) that returns, for an id of the
\* store and a valid v, a fresh Inventario loaded from the same database has
\* the id and reports for it the quantity obtener_por_id(id) reports (v).
C15_CantidadPersistida ==
    (resInv = ResInv("actualizar_cantidad", "ok"))
        => LET fresca == cargar_desde_bd(tabla)
           IN  /\ obtener_por_id(petInv).found
               /\ petInv \in DOMAIN fresca
               /\ fresca[petInv].cantidad = obtener_por_id(petInv).p.cantidad

\* The invalid values of an update: a negative quantity, a negative price,
\* an empty or whitespace-only name.
CantidadNegativa(v) == v < 0
PrecioNegativo(v) == ~v.nan /\ v.v < 0
NombreEnBlanco(v) == \A i \in 1..Len(v) : v[i] = " "

\* The call of the step raised ValueError and changed neither the dict nor
\* the table.
RechazadoSinCambio(op) ==
    /\ resInv' = ResInv(op, "ValueError")
    /\ inv' = inv
    /\ tabla' = tabla

\* C16: an update of a product of the store with an invalid value (negative
\* quantity, negative price, empty or whitespace-only name) raises ValueError,
\* as the construction of a product with that value does, and leaves the
\* product's fields in the dict and its row in the table unchanged.
C16_ActualizarInvalido ==
    [][petInv' \in DOMAIN inv
         => /\ resInv'.op = "actualizar_cantidad"
                 => \A v \in CantidadesInv :
                       (CantidadNegativa(v) /\ ActualizarCantidadDe(petInv', v, FALSE))
                         => /\ RechazadoSinCambio("actualizar_cantidad")
                            /\ ~NuevoProducto(petInv', <<"a">>, v, Flt(0), "General").ok
            /\ resInv'.op = "actualizar_precio"
                 => \A v \in PreciosInv :
                       (PrecioNegativo(v) /\ ActualizarPrecioDe(petInv', v, FALSE))
                         => /\ RechazadoSinCambio("actualizar_precio")
                            /\ ~NuevoProducto(petInv', <<"a">>, 0, v, "General").ok
            /\ resInv'.op = "actualizar_nombre"
                 => \A v \in NombresInv :
                       (NombreEnBlanco(v) /\ ActualizarNombreDe(petInv', v, FALSE))
                         => /\ RechazadoSinCambio("actualizar_nombre")
                            /\ ~NuevoProducto(petInv', v, 0, Flt(0), "General").ok]_vars

\* C16 witness: an update of a stored product, which has its row, was refused
\* with ValueError.
C16_Witness ==
    /\ resInv.op \in {"actualizar_cantidad", "actualizar_precio", "actualizar_nombre"}
    /\ resInv.resultado = "ValueError"
    /\ petInv \in DOMAIN inv
    /\ petInv \in DOMAIN tabla

\* The ids of the products of the dict / of the rows of the table whose name
\* contains the trimmed term, ignoring case.
CoincidenEnMemoria(termino) ==
    { id \in DOMAIN inv : Contiene(Lower(Strip(termino)), Lower(inv[id].nombre)) }
CoincidenEnTabla(termino) ==
    { id \in DOMAIN tabla : Contiene(Lower(Strip(termino)), Lower(tabla[id].nombre)) }

\* C17: buscar_por_nombre(term) returns exactly the products whose name
\* contains the term as a substring, ignoring case, in the dict or in the
\* table: the matches of the dict first, then the matching rows whose id is
\* not among them, each id once.
C17_BuscarPorNombre ==
    \A termino \in Terminos :
        LET r == buscar_por_nombre(termino)
        IN  /\ { p.id : p \in r.memoria } = CoincidenEnMemoria(termino)
            /\ { p.id : p \in r.bd } =
                   CoincidenEnTabla(termino) \ CoincidenEnMemoria(termino)
            /\ Cardinality(r.memoria) + Cardinality(r.bd) =
                   Cardinality(CoincidenEnMemoria(termino) \cup CoincidenEnTabla(termino))

\* The sum of cantidad over the products of a list.
RECURSIVE SumaDeLista(_)
SumaDeLista(lista) ==
    IF lista = <<>> THEN 0 ELSE Head(lista).cantidad + SumaDeLista(Tail(lista))

\* C20: in every reachable state of the store, the state a failed mutating
\* call leaves included, stock_total() equals the sum of cantidad over the
\* list listar_todos() returns.
C20_StockTotal == stock_total = SumaDeLista(listar_todos)

\* A mutating call has failed in the database, the dict holds two products
\* with stock and differs from the table.
C20_Witness ==
    /\ resInv.resultado = "error_bd"
    /\ inv # tabla
    /\ Len(listar_todos) = 2
    /\ stock_total > 0

----------------------------------------------------------------------------
(* Properties of the Producto entity. *)

\* s is the string t with its leading and trailing whitespace removed.
Recortado(s, t) ==
    /\ Len(s) > 0 /\ s[1] # " " /\ s[Len(s)] # " "
    /\ \E i \in 1..Len(t) :
          /\ i + Len(s) - 1 <= Len(t)
          /\ SubSeq(t, i, i + Len(s) - 1) = s
          /\ \A j \in 1..Len(t) : (j < i \/ j > i + Len(s) - 1) => t[j] = " "

\* C18: constructing a Producto raises the validation error exactly when
\* id <= 0, or the name is empty or whitespace-only, or quantity < 0, or
\* price < 0; otherwise it returns the product with the given id, quantity,
\* price and category and with the name trimmed.
C18_Construccion ==
    construido.args # <<>>
        => LET a == construido.args
           IN  /\ ~construido.ok <=> \/ a.id <= 0
                                     \/ NombreEnBlanco(a.nombre)
                                     \/ CantidadNegativa(a.cantidad)
                                     \/ PrecioNegativo(a.precio)
               /\ construido.ok
                    => /\ construido.p =
                            [a EXCEPT !.nombre = construido.p.nombre]
                       /\ Recortado(construido.p.nombre, a.nombre)

\* C18 witness: a product was constructed from a name with leading
\* whitespace and holds the name without it.
C18_Witness ==
    /\ construido.ok
    /\ construido.args.nombre = <<" ", "B">>
    /\ construido.p.nombre = <<"B">>

----------------------------------------------------------------------------
(* Properties of the connection, the transaction and the cart of a purchase *)
(* request of app.py.                                                       *)

\* The step is a purchase or a cart checkout.
EsCompra == EsCompraProducto \/ EsCompraCarrito

\* C22: a purchase or a cart checkout that opens a connection releases it on
\* every exit path (product not found, insufficient stock, success, a raising
\* statement of the apply phase, a raising read of the validation phase):
\* when the request has ended it has closed every connection it opened.
C22_ConexionCerrada ==
    [][EsCompra => res'.cerradas = res'.conexiones]_vars

\* The step is a cart checkout that enters the apply phase: a customer's,
\* with a cart whose every line passes validation and no SELECT raising.
CarritoEntraEnAplicar ==
    /\ EsCompraCarrito /\ DeCliente
    /\ Len(carrito) > 0 /\ ~HayLineaFallida
    /\ pet'.fallo \notin 1..Len(carrito)

\* The step is the purchase of product pid with form value f and it enters
\* the apply phase.
CompraEntraEnAplicar(pid, f) ==
    /\ PedidoValido(f)
    /\ productos[pid].cantidad >= Pedido(f)
    /\ CompraDe(pid, f)

\* The request ends its transaction exactly once: by one commit when nothing
\* failed, by one rollback and no commit when something did.
TerminaUnaVez(fallida) ==
    /\ res'.commits + res'.rollbacks = 1
    /\ res'.commits = 1 <=> ~fallida
    /\ fallida => SinMutacion

\* C23 as stated: every purchase or cart checkout that enters the apply phase
\* ends its transaction exactly once: it commits once when and only when
\* every INSERT and every UPDATE succeeded, otherwise it rolls back once; it
\* never commits after a failed statement and never both commits and rolls
\* back.
C23_TransaccionUnaVezOriginal ==
    [][/\ CarritoEntraEnAplicar
            => TerminaUnaVez(pet'.fallo \in (Len(carrito) + 1)..(3 * Len(carrito)))
       /\ ( /\ EsCompraProducto /\ DeCliente /\ pet'.fallo # 1
            /\ \E pid \in DOMAIN productos, f \in Formularios :
                  CompraEntraEnAplicar(pid, f) )
            => TerminaUnaVez(pet'.fallo \in 2..3)]_vars

\* C23, amended: every purchase or cart checkout that enters the apply phase
\* ends its transaction exactly once: it commits once when and only when
\* every INSERT, every UPDATE and the commit itself succeeded, otherwise (an
\* INSERT, an UPDATE or the commit raised) it rolls back once and commits
\* nothing; it never both commits and rolls back.
C23_TransaccionUnaVez ==
    [][/\ CarritoEntraEnAplicar
            => TerminaUnaVez(pet'.fallo \in (Len(carrito) + 1)..(3 * Len(carrito) + 1))
       /\ ( /\ EsCompraProducto /\ DeCliente /\ pet'.fallo # 1
            /\ \E pid \in DOMAIN productos, f \in Formularios :
                  CompraEntraEnAplicar(pid, f) )
            => TerminaUnaVez(pet'.fallo \in 2..4)]_vars

\* C23 witness: the commit of a checkout of two lines raised after every
\* INSERT and UPDATE had run, and the checkout rolled back.
C23_Witness ==
    /\ res.op = "comprar_carrito"
    /\ res.resultado = "error"
    /\ Len(carrito) = 2
    /\ pet.fallo = 3 * Len(carrito) + 1
    /\ res.rollbacks = 1
    /\ res.commits = 0

\* Every line of the cart asks for at least one unit and sits under the key
\* of its own product id; no key occurs twice.
CarritoBienFormado ==
    /\ \A i \in 1..Len(carrito) :
          /\ carrito[i].item.cantidad >= 1
          /\ carrito[i].clave = Str(carrito[i].item.id)
    /\ \A i, j \in 1..Len(carrito) : carrito[i].clave = carrito[j].clave => i = j

\* A request that adds a product already in the cart adds its amount to the
\* line of that product and leaves the other lines and the order alone.
AcumulaEnLinea ==
    (res'.op = "agregar_al_carrito" /\ res'.resultado = "ok")
      => \A pid \in Pids, f \in Formularios :
            (Str(pid) \in Claves(carrito) /\ AgregarAlCarritoDe(pid, f))
              => carrito' =
                   [carrito EXCEPT ![Posicion(carrito, Str(pid))].item.cantidad =
                                       @ + Pedido(f)]

\* C24: after any sequence of agregar_al_carrito, eliminar, vaciar and
\* checkout requests every cart line has a requested quantity >= 1 and is
\* stored under the key of its own product id, and adding a product that is
\* already in the cart adds the new amount to the existing line.
C24_LineasDelCarrito == []CarritoBienFormado /\ [][AcumulaEnLinea]_vars

\* C24 witness: the last request added to the only line of the cart, which now
\* asks for more than its product has in stock.
C24_Witness ==
    /\ res.op = "agregar_al_carrito"
    /\ res.resultado = "ok"
    /\ Len(carrito) = 1
    /\ carrito[1].item.id \in DOMAIN productos
    /\ carrito[1].item.cantidad > productos[carrito[1].item.id].cantidad

\* The units of product pid in the purchase records cs.
RECURSIVE Comprado(_, _)
Comprado(pid, cs) ==
    IF cs = <<>> THEN 0
    ELSE (IF Head(cs).producto_id = pid THEN Head(cs).cantidad ELSE 0)
         + Comprado(pid, Tail(cs))

\* C25: stock is conserved by purchasing.  In every state reached by
\* single-item purchases and cart checkouts, successful or failed, one at a
\* time and with no product created, edited or deleted in between, every
\* product's initial stock equals its current stock plus the quantities of
\* the committed purchase records of that product.
C25_StockConservado ==
    \A pid \in Pids :
        /\ pid \in DOMAIN productos
        /\ MaxStock = productos[pid].cantidad + Comprado(pid, compras)

\* C25 witness: a checkout has failed and rolled back after a purchase that
\* took stock from a product.
C25_Witness ==
    /\ res.op = "comprar_carrito"
    /\ res.resultado = "error"
    /\ \E pid \in Pids : Comprado(pid, compras) > 0

\* C26: a cart checkout empties the session cart only after its transaction
\* has committed; on every other outcome (administrator refused, empty cart,
\* missing product, insufficient stock, a raising read, failure and rollback
\* in the apply phase) the cart is exactly what it was before the request.
C26_CarritoVaciadoTrasCommit ==
    [][EsCompraCarrito
         => \/ /\ res'.resultado = "ok"
               /\ res'.commits = 1
               /\ compras' # compras
               /\ carrito' = <<>>
            \/ /\ res'.resultado # "ok"
               /\ res'.commits = 0
               /\ SinMutacion
               /\ carrito' = carrito]_vars

\* C26 witness: the INSERT of the only line of the cart raised, the checkout
\* rolled back and the line is still in the cart.
C26_Witness ==
    /\ res.op = "comprar_carrito"
    /\ res.resultado = "error"
    /\ res.rollbacks = 1
    /\ pet.fallo = 2
    /\ Len(carrito) = 1

----------------------------------------------------------------------------
(* Properties of requests of different sessions served at the same time. *)

\* The units of product pid that the UPDATEs among the statements ss take.
RECURSIVE Pedidas(_, _)
Pedidas(pid, ss) ==
    IF ss = <<>> THEN 0
    ELSE (IF Head(ss).tipo = "UPDATE" /\ Head(ss).pid = pid
          THEN Head(ss).cantidad ELSE 0)
         + Pedidas(pid, Tail(ss))

\* The step is the apply phase of the request in flight of session s, and no
\* statement raises in it.
AplicaSinFallo(s) ==
    /\ sesiones[s].fase = "validado"
    /\ sesiones'[s].fase = "libre"
    /\ pet'.fallo = 0

\* C21: when two purchases or cart checkouts of different sessions on the
\* same product interleave between the stock read of the validation and the
\* decrement of the apply phase, both pass validation against the same stock
\* value and both decrements are applied.  The apply phase of a request that
\* passed validation does not look at the stock again: whatever the committed
\* stock has become since the request read it, it commits, takes every
\* quantity it asked for and adds one record per line; a state in which the
\* committed stock of the product is below zero is reachable.
C21_AmbosDescuentan ==
    [][\A s \in Sesiones :
          AplicaSinFallo(s)
            => /\ res'.resultado = "ok"
               /\ res'.commits = 1
               /\ DOMAIN productos' = DOMAIN productos
               /\ \A pid \in DOMAIN productos :
                     productos'[pid].cantidad =
                         productos[pid].cantidad - Pedidas(pid, sesiones[s].sentencias)
               /\ Len(compras') =
                     Len(compras) + Len(sesiones[s].sentencias) \div 2]_vars

\* C21 witness: the requests of both sessions have committed, one record
\* each, and the committed stock of the product is below zero.
C21_Witness ==
    /\ \A s \in Sesiones : sesiones[s].fase = "libre"
    /\ Len(compras) = 2
    /\ compras[1].usuario_id # compras[2].usuario_id
    /\ compras[1].producto_id = compras[2].producto_id
    /\ productos[compras[1].producto_id].cantidad < 0

====
